---------------------------- MODULE Spec2Model ----------------------------
(***************************************************************************)
(* The one-time key store of src/olm/account/one_time_keys.rs.             *)
(*                                                                         *)
(* The store (struct OneTimeKeys) is four fields: the counter key_id, the  *)
(* ordered map unpublished_public_keys (KeyId -> public key), the ordered  *)
(* map private_keys (KeyId -> secret key) and the hash map                 *)
(* reverse_public_keys (public key -> KeyId).  Maps are TLA+ functions     *)
(* with a finite domain; an Option is a set with at most one element.      *)
(***************************************************************************)
EXTENDS Integers, FiniteSets, Sequences, TLC

(***************************************************************************)
(* Bounds of the model.                                                    *)
(***************************************************************************)
\* Capacity of the store.  The program sets 100 * PUBLIC_MAX_ONE_TIME_KEYS
\* (line 44); the model scales it down so that eviction happens.
MAX_ONE_TIME_KEYS == 2

\* KeyIds the model hands out: generate is disabled once key_id would
\* pass this value (the program's counter is a u64).
MaxKeyId == 3

(***************************************************************************)
(* Keys.  A secret key is a scalar; its public key is the scalar multiple  *)
(* of the base point, modelled in the multiplicative group mod 13 with     *)
(* generator 2 (2 is a primitive root of 13, so the map is injective on    *)
(* 1..12 and is not the identity).                                         *)
(***************************************************************************)
RECURSIVE PowMod(_, _)
PowMod(b, e) == IF e = 0 THEN 1 ELSE (b * PowMod(b, e - 1)) % 13

\* Curve25519PublicKey::from(&secret)
PublicKeyFrom(secret) == PowMod(2, secret)

\* The secrets the random generator can produce (one for each KeyId the
\* model hands out), and their public keys.
Secrets == 1..(MaxKeyId + 1)
PublicKeys == {PublicKeyFrom(s) : s \in Secrets}
KeyIds == 0..MaxKeyId

(***************************************************************************)
(* Options and maps.                                                       *)
(***************************************************************************)
None == {}
Some(x) == {x}

EmptyMap == << >>
MapGet(m, k) == IF k \in DOMAIN m THEN Some(m[k]) ELSE None
MapRemove(m, k) == [x \in DOMAIN m \ {k} |-> m[x]]
MapInsert(m, k, v) == [x \in DOMAIN m \cup {k} |-> IF x = k THEN v ELSE m[x]]
MapLen(m) == Cardinality(DOMAIN m)
MapValues(m) == {m[x] : x \in DOMAIN m}

\* BTreeMap::keys().next(): the smallest key of an ordered map.
FirstKey(m) ==
    IF DOMAIN m = {} THEN None
    ELSE Some(CHOOSE k \in DOMAIN m : \A j \in DOMAIN m : k <= j)

\* BTreeMap::keys().next_back(): the largest key of an ordered map.
LastKey(m) ==
    IF DOMAIN m = {} THEN None
    ELSE Some(CHOOSE k \in DOMAIN m : \A j \in DOMAIN m : j <= k)

VARIABLES
    key_id,                   \* OneTimeKeys.key_id
    unpublished_public_keys,  \* OneTimeKeys.unpublished_public_keys
    private_keys,             \* OneTimeKeys.private_keys
    reverse_public_keys,      \* OneTimeKeys.reverse_public_keys
    issued,                   \* history: public keys generate has produced
    consumed,                 \* history: public keys remove_secret_key returned
    evicted,                  \* history: public keys of the keys evicted
    last,                     \* history: the last call, its argument and result
    scenario,                 \* history: progress through the store_limit test
    marked_at,                \* history: key_id at the last mark_as_published
    batch                     \* the publisher: the keys it enumerated for upload

vars == << key_id, unpublished_public_keys, private_keys, reverse_public_keys,
           issued, consumed, evicted, last, scenario, marked_at, batch >>

\* The store as one value, for the operators below.
Store(k, u, p, r) ==
    [ key_id |-> k, unpublished_public_keys |-> u,
      private_keys |-> p, reverse_public_keys |-> r ]

Self == Store(key_id, unpublished_public_keys, private_keys, reverse_public_keys)

(***************************************************************************)
(* The operations of impl OneTimeKeys, as functions on the store.          *)
(***************************************************************************)
\* OneTimeKeys::new
new == Store(0, EmptyMap, EmptyMap, EmptyMap)

\* A mark_as_published that also clears the index.
mark_as_published_clear_index(self) ==
    [self EXCEPT !.unpublished_public_keys = EmptyMap,
                 !.reverse_public_keys = EmptyMap]

\* A mark_as_published that leaves the newest unpublished key in the set.
mark_as_published_keep_last(self) ==
    [self EXCEPT !.unpublished_public_keys =
        [id \in LastKey(@) |-> @[id]]]

\* OneTimeKeys::mark_as_published
mark_as_published(self) ==
    [self EXCEPT !.unpublished_public_keys = EmptyMap]

\* OneTimeKeys::get_secret_key
get_secret_key(self, public_key) ==
    IF public_key \in DOMAIN self.reverse_public_keys
    THEN MapGet(self.private_keys, self.reverse_public_keys[public_key])
    ELSE None

\* A remove_secret_key that reads the maps where it should remove from them.
remove_secret_key_peek(self, public_key) ==
    IF public_key \in DOMAIN self.reverse_public_keys
    THEN LET id == self.reverse_public_keys[public_key]
         IN  [ store |-> [self EXCEPT
                   !.unpublished_public_keys = MapRemove(@, id)],
               ret |-> MapGet(self.private_keys, id) ]
    ELSE [ store |-> self, ret |-> None ]

\* A remove_secret_key that looks the public key up in the index with get
\* where the program uses remove.
remove_secret_key_keep_reverse(self, public_key) ==
    IF public_key \in DOMAIN self.reverse_public_keys
    THEN LET id == self.reverse_public_keys[public_key]
         IN  [ store |-> [self EXCEPT
                   !.unpublished_public_keys = MapRemove(@, id),
                   !.private_keys = MapRemove(@, id)],
               ret |-> MapGet(self.private_keys, id) ]
    ELSE [ store |-> self, ret |-> None ]

\* A remove_secret_key that forgets the unpublished set.
remove_secret_key_keep_unpublished(self, public_key) ==
    IF public_key \in DOMAIN self.reverse_public_keys
    THEN LET id == self.reverse_public_keys[public_key]
         IN  [ store |-> [self EXCEPT
                   !.reverse_public_keys = MapRemove(@, public_key),
                   !.private_keys = MapRemove(@, id)],
               ret |-> MapGet(self.private_keys, id) ]
    ELSE [ store |-> self, ret |-> None ]

\* OneTimeKeys::remove_secret_key: the store afterwards and the value returned.
remove_secret_key(self, public_key) ==
    IF public_key \in DOMAIN self.reverse_public_keys
    THEN LET id == self.reverse_public_keys[public_key]
         IN  [ store |-> [self EXCEPT
                   !.reverse_public_keys = MapRemove(@, public_key),
                   !.unpublished_public_keys = MapRemove(@, id),
                   !.private_keys = MapRemove(@, id)],
               ret |-> MapGet(self.private_keys, id) ]
    ELSE [ store |-> self, ret |-> None ]

\* An eviction that compares with > where the program compares with >=.
evict_oldest_when_over(self) ==
    IF MapLen(self.private_keys) > MAX_ONE_TIME_KEYS
    THEN IF FirstKey(self.private_keys) # None
         THEN LET oldest == CHOOSE k \in FirstKey(self.private_keys) : TRUE
                  public_key == PublicKeyFrom(self.private_keys[oldest])
              IN  [self EXCEPT
                      !.private_keys = MapRemove(@, oldest),
                      !.reverse_public_keys = MapRemove(@, public_key),
                      !.unpublished_public_keys = MapRemove(@, oldest)]
         ELSE self
    ELSE self

\* An eviction that leaves the evicted key's entry in the index.
evict_oldest_keep_reverse(self) ==
    IF MapLen(self.private_keys) >= MAX_ONE_TIME_KEYS
    THEN IF FirstKey(self.private_keys) # None
         THEN LET oldest == CHOOSE k \in FirstKey(self.private_keys) : TRUE
              IN  [self EXCEPT
                      !.private_keys = MapRemove(@, oldest),
                      !.unpublished_public_keys = MapRemove(@, oldest)]
         ELSE self
    ELSE self

\* An eviction that takes the last key of the map (keys().next_back()).
evict_newest(self) ==
    IF MapLen(self.private_keys) >= MAX_ONE_TIME_KEYS
    THEN IF LastKey(self.private_keys) # None
         THEN LET newest == CHOOSE k \in LastKey(self.private_keys) : TRUE
                  public_key == PublicKeyFrom(self.private_keys[newest])
              IN  [self EXCEPT
                      !.private_keys = MapRemove(@, newest),
                      !.reverse_public_keys = MapRemove(@, public_key),
                      !.unpublished_public_keys = MapRemove(@, newest)]
         ELSE self
    ELSE self

\* An eviction that leaves the evicted KeyId in the unpublished set.
evict_oldest_keep_unpublished(self) ==
    IF MapLen(self.private_keys) >= MAX_ONE_TIME_KEYS
    THEN IF FirstKey(self.private_keys) # None
         THEN LET oldest == CHOOSE k \in FirstKey(self.private_keys) : TRUE
                  public_key == PublicKeyFrom(self.private_keys[oldest])
              IN  [self EXCEPT
                      !.private_keys = MapRemove(@, oldest),
                      !.reverse_public_keys = MapRemove(@, public_key)]
         ELSE self
    ELSE self

\* The eviction at the head of insert_secret_key (lines 79-88).
evict_oldest(self) ==
    IF MapLen(self.private_keys) >= MAX_ONE_TIME_KEYS
    THEN IF FirstKey(self.private_keys) # None
         THEN LET oldest == CHOOSE k \in FirstKey(self.private_keys) : TRUE
                  public_key == PublicKeyFrom(self.private_keys[oldest])
              IN  [self EXCEPT
                      !.private_keys = MapRemove(@, oldest),
                      !.reverse_public_keys = MapRemove(@, public_key),
                      !.unpublished_public_keys = MapRemove(@, oldest)]
         ELSE self
    ELSE self

\* An insert_secret_key that reads the published flag the wrong way round.
insert_secret_key_flag_inverted(self, id, key, published) ==
    LET trimmed == evict_oldest(self)
        public_key == PublicKeyFrom(key)
    IN  [trimmed EXCEPT
            !.private_keys = MapInsert(@, id, key),
            !.reverse_public_keys = MapInsert(@, public_key, id),
            !.unpublished_public_keys =
                IF published THEN MapInsert(@, id, public_key) ELSE @]

\* OneTimeKeys::insert_secret_key
insert_secret_key(self, id, key, published) ==
    LET trimmed == evict_oldest(self)
        public_key == PublicKeyFrom(key)
    IN  [trimmed EXCEPT
            !.private_keys = MapInsert(@, id, key),
            !.reverse_public_keys = MapInsert(@, public_key, id),
            !.unpublished_public_keys =
                IF ~published THEN MapInsert(@, id, public_key) ELSE @]

\* A generate that leaves key_id as it is.
RECURSIVE generate_no_increment(_, _)
generate_no_increment(self, keys) ==
    IF keys = << >> THEN self
    ELSE generate_no_increment(
             insert_secret_key(self, self.key_id, Head(keys), FALSE), Tail(keys))

\* OneTimeKeys::generate; keys is what the random generator returns in the
\* count iterations of the loop.
RECURSIVE generate(_, _)
generate(self, keys) ==
    IF keys = << >> THEN self
    ELSE LET inserted == insert_secret_key(self, self.key_id, Head(keys), FALSE)
         IN  generate([inserted EXCEPT !.key_id = @ + 1], Tail(keys))

(***************************************************************************)
(* The persistence codec: OneTimeKeysPickle and the two From impls.        *)
(***************************************************************************)
\* impl From<OneTimeKeys> for OneTimeKeysPickle
to_pickle(keys) ==
    [ key_id |-> keys.key_id,
      public_keys |-> keys.unpublished_public_keys,
      private_keys |-> keys.private_keys ]

\* The loop of lines 125-127: reverse_public_keys.insert(v, k) in ascending
\* order of k, so that of two entries with one public key the later one wins.
ReverseOf(public_keys) ==
    [ v \in MapValues(public_keys) |->
        CHOOSE k \in DOMAIN public_keys :
            /\ public_keys[k] = v
            /\ \A j \in DOMAIN public_keys : public_keys[j] = v => j <= k ]

\* A from_pickle that leaves the index empty.
from_pickle_no_index(pickle) ==
    Store(pickle.key_id, pickle.public_keys, pickle.private_keys, EmptyMap)

\* A from_pickle that rebuilds the index from all the private keys.
from_pickle_full_index(pickle) ==
    Store(pickle.key_id, pickle.public_keys, pickle.private_keys,
          ReverseOf([id \in DOMAIN pickle.private_keys |->
                        PublicKeyFrom(pickle.private_keys[id])]))

\* A from_pickle that starts the counter again at 0.
from_pickle_reset_key_id(pickle) ==
    Store(0, pickle.public_keys, pickle.private_keys,
          ReverseOf(pickle.public_keys))

\* impl From<OneTimeKeysPickle> for OneTimeKeys
from_pickle(pickle) ==
    Store(pickle.key_id, pickle.public_keys, pickle.private_keys,
          ReverseOf(pickle.public_keys))

(***************************************************************************)
(* The state machine.                                                      *)
(***************************************************************************)
\* A call that has returned: no method of OneTimeKeys asserts, unwraps or
\* panics on the state of the maps, so every call returns its value.
Call(op, arg, ret) == [ op |-> op, arg |-> arg, ret |-> ret, fatal |-> FALSE ]

\* The directory publisher (the caller of mark_as_published): it has
\* enumerated nothing yet.
NoBatch == [ state |-> "idle", public_keys |-> EmptyMap, at |-> 0 ]

\* The store becomes s.
Becomes(s) ==
    /\ key_id' = s.key_id
    /\ unpublished_public_keys' = s.unpublished_public_keys
    /\ private_keys' = s.private_keys
    /\ reverse_public_keys' = s.reverse_public_keys

StoreUnchanged ==
    UNCHANGED << key_id, unpublished_public_keys, private_keys,
                 reverse_public_keys >>

Init ==
    /\ key_id = new.key_id
    /\ unpublished_public_keys = new.unpublished_public_keys
    /\ private_keys = new.private_keys
    /\ reverse_public_keys = new.reverse_public_keys
    /\ issued = {}
    /\ consumed = {}
    /\ evicted = {}
    /\ last = Call("new", 0, None)
    /\ scenario = "created"
    /\ marked_at = 0
    /\ batch = NoBatch

\* The public keys of the secret keys a store holds.
HeldPublicKeys(s) ==
    {PublicKeyFrom(s.private_keys[id]) : id \in DOMAIN s.private_keys}

\* The random generator (thread_rng) returns count secret keys whose public
\* keys are pairwise distinct and were never produced before.
FreshKeys(count) ==
    { keys \in [1..count -> Secrets] :
        /\ \A i \in 1..count : PublicKeyFrom(keys[i]) \notin issued
        /\ \A i, j \in 1..count :
               PublicKeyFrom(keys[i]) = PublicKeyFrom(keys[j]) => i = j }

\* The steps of test::store_limit: generate(MAX_ONE_TIME_KEYS) on a new
\* store, then mark_as_published, then one more generate.
ScenarioAfter(op, count) ==
    IF scenario = "created" /\ op = "generate" /\ count = MAX_ONE_TIME_KEYS
        THEN "filled"
    ELSE IF scenario = "filled" /\ op = "mark_as_published"
        THEN "published"
    ELSE IF scenario = "published" /\ op = "generate"
            /\ count > 0 /\ count <= MAX_ONE_TIME_KEYS
        THEN "refilled"
    ELSE "left"

\* store.generate(count)
Generate(count) ==
    /\ key_id + count <= MaxKeyId + 1
    /\ \E keys \in FreshKeys(count) :
        LET generated == {PublicKeyFrom(keys[i]) : i \in 1..count}
            after == generate(Self, keys)
        IN  /\ Becomes(after)
            /\ issued' = issued \cup generated
            /\ evicted' = evicted \cup
                   ((HeldPublicKeys(Self) \cup generated) \ HeldPublicKeys(after))
    /\ last' = Call("generate", count, None)
    /\ scenario' = ScenarioAfter("generate", count)
    /\ UNCHANGED << consumed, marked_at, batch >>

\* The call store.mark_as_published(), whoever makes it.
MarkAsPublishedCall ==
    /\ Becomes(mark_as_published(Self))
    /\ last' = Call("mark_as_published", 0, None)
    /\ scenario' = ScenarioAfter("mark_as_published", 0)
    /\ marked_at' = key_id
    /\ UNCHANGED << issued, consumed, evicted >>

\* store.mark_as_published()
MarkAsPublished ==
    /\ MarkAsPublishedCall
    /\ UNCHANGED batch

\* store.get_secret_key(&public_key): takes &self, the store is not written.
GetSecretKey(public_key) ==
    /\ StoreUnchanged
    /\ last' = Call("get_secret_key", public_key, get_secret_key(Self, public_key))
    /\ scenario' = ScenarioAfter("get_secret_key", 0)
    /\ UNCHANGED << issued, consumed, evicted, marked_at, batch >>

\* store.remove_secret_key(&public_key)
RemoveSecretKey(public_key) ==
    LET r == remove_secret_key(Self, public_key)
    IN  /\ Becomes(r.store)
        /\ last' = Call("remove_secret_key", public_key, r.ret)
        /\ consumed' = IF r.ret # None THEN consumed \cup {public_key}
                       ELSE consumed
        /\ scenario' = ScenarioAfter("remove_secret_key", 0)
        /\ UNCHANGED << issued, evicted, marked_at, batch >>

\* The store is serialized and deserialized (serde into / from
\* OneTimeKeysPickle).
RoundTrip ==
    /\ Becomes(from_pickle(to_pickle(Self)))
    /\ last' = Call("round_trip", 0, None)
    /\ scenario' = ScenarioAfter("round_trip", 0)
    /\ UNCHANGED << issued, consumed, evicted, marked_at, batch >>

Next ==
    \/ \E count \in 0..(MaxKeyId + 1) : Generate(count)
    \/ MarkAsPublished
    \/ \E public_key \in PublicKeys : GetSecretKey(public_key)
    \/ \E public_key \in PublicKeys : RemoveSecretKey(public_key)
    \/ RoundTrip

Spec == Init /\ [][Next]_vars

\* The core alone: the mutating operations without the persistence codec.
NextCore ==
    \/ \E count \in 0..(MaxKeyId + 1) : Generate(count)
    \/ MarkAsPublished
    \/ \E public_key \in PublicKeys : GetSecretKey(public_key)
    \/ \E public_key \in PublicKeys : RemoveSecretKey(public_key)

SpecCore == Init /\ [][NextCore]_vars

(***************************************************************************)
(* Loading a snapshot that this store did not write.  OneTimeKeys          *)
(* deserializes from any OneTimeKeysPickle (serde(from), line 26); the     *)
(* conversion checks nothing.                                              *)
(***************************************************************************)
\* The maps with at most one entry.
SmallMaps(K, V) == {EmptyMap} \cup {(k :> v) : k \in K, v \in V}

\* The snapshots with at most one public key and at most one private key.
Pickles ==
    [ key_id : 0..(MaxKeyId + 1),
      public_keys : SmallMaps(KeyIds, PublicKeys),
      private_keys : SmallMaps(KeyIds, Secrets) ]

\* OneTimeKeys is deserialized from pickle: the store is made by from_pickle
\* where Init makes it by new.
Load(pickle) ==
    LET loaded == from_pickle(pickle)
    IN  /\ last.op = "new"
        /\ Becomes(loaded)
        /\ last' = Call("from_pickle", 0, None)
        /\ issued' = issued \cup MapValues(pickle.public_keys)
                            \cup HeldPublicKeys(loaded)
        /\ scenario' = ScenarioAfter("from_pickle", 0)
        /\ UNCHANGED << consumed, evicted, marked_at, batch >>

NextLoad ==
    \/ \E pickle \in Pickles : Load(pickle)
    \/ \E public_key \in PublicKeys : GetSecretKey(public_key)
    \/ \E public_key \in PublicKeys : RemoveSecretKey(public_key)

SpecLoad == Init /\ [][NextLoad]_vars

(***************************************************************************)
(* insert_secret_key called by the account (it is pub(super)) with a KeyId *)
(* and a key of the caller's choice.                                       *)
(***************************************************************************)
\* I1 of a store: every private key is indexed under its public key, and the
\* index has no other entry.
IndexConsistent(s) ==
    /\ \A id \in DOMAIN s.private_keys :
          LET public_key == PublicKeyFrom(s.private_keys[id])
          IN  /\ public_key \in DOMAIN s.reverse_public_keys
              /\ s.reverse_public_keys[public_key] = id
    /\ MapLen(s.reverse_public_keys) = MapLen(s.private_keys)

\* store.insert_secret_key(id, key, published), on a store that satisfies I1.
InsertSecretKey(id, key, published) ==
    LET after == insert_secret_key(Self, id, key, published)
    IN  /\ IndexConsistent(Self)
        /\ Becomes(after)
        /\ last' = Call("insert_secret_key", id, None)
        /\ issued' = issued \cup {PublicKeyFrom(key)}
        /\ evicted' = evicted \cup
               ((HeldPublicKeys(Self) \cup {PublicKeyFrom(key)})
                    \ HeldPublicKeys(after))
        /\ scenario' = ScenarioAfter("insert_secret_key", 0)
        /\ UNCHANGED << consumed, marked_at, batch >>

NextInsert ==
    \/ \E id \in KeyIds, key \in Secrets, published \in BOOLEAN :
           InsertSecretKey(id, key, published)
    \/ \E public_key \in PublicKeys : GetSecretKey(public_key)

SpecInsert == Init /\ [][NextInsert]_vars

(***************************************************************************)
(* The directory publisher of the account: it reads                        *)
(* unpublished_public_keys, uploads what it read and, when the upload      *)
(* succeeded, calls mark_as_published.  generate calls may fall between    *)
(* its steps; no two calls overlap.                                        *)
(***************************************************************************)
\* The publisher reads unpublished_public_keys (a pub field) for upload.
Enumerate ==
    /\ batch.state # "uploading"
    /\ batch' = [ state |-> "uploading",
                  public_keys |-> unpublished_public_keys,
                  at |-> key_id ]
    /\ StoreUnchanged
    /\ last' = Call("unpublished_public_keys", 0, None)
    /\ scenario' = ScenarioAfter("unpublished_public_keys", 0)
    /\ UNCHANGED << issued, consumed, evicted, marked_at >>

\* The upload succeeded: the publisher calls store.mark_as_published().
PublishUploaded ==
    /\ batch.state = "uploading"
    /\ MarkAsPublishedCall
    /\ batch' = [batch EXCEPT !.state = "published"]

\* The upload failed: the publisher gives the batch up and calls nothing.
UploadFailed ==
    /\ batch.state = "uploading"
    /\ batch' = NoBatch
    /\ StoreUnchanged
    /\ UNCHANGED << issued, consumed, evicted, last, scenario, marked_at >>

NextPublish ==
    \/ Enumerate
    \/ PublishUploaded
    \/ UploadFailed
    \/ \E count \in 0..(MaxKeyId + 1) : Generate(count)

SpecPublish == Init /\ [][NextPublish]_vars

(***************************************************************************)
(* Properties.                                                             *)
(***************************************************************************)
\* The smallest element of a non-empty set of KeyIds.
Min(S) == CHOOSE x \in S : \A y \in S : x <= y

\* C1: after every operation (generate, mark_as_published, remove_secret_key,
\* snapshot round-trip) the store holds at most MAX_ONE_TIME_KEYS private keys.
C1_CapacityBound == MapLen(private_keys) <= MAX_ONE_TIME_KEYS

\* C1 witness: the store is full after a generate that had to evict.
C1_Witness ==
    /\ last.op = "generate"
    /\ evicted # {}
    /\ MapLen(private_keys) = MAX_ONE_TIME_KEYS

\* C2: without snapshot round-trips, every held private key is indexed under
\* its public key with its own KeyId, and reverse_public_keys has as many
\* entries as private_keys.
C2_IndexConsistency == IndexConsistent(Self)

\* C2 witness: keys are held after both an eviction and a consumption.
C2_Witness ==
    /\ evicted # {}
    /\ consumed # {}
    /\ MapLen(private_keys) = MAX_ONE_TIME_KEYS

\* C3: a public key whose secret remove_secret_key has returned resolves to
\* nothing from then on, by get_secret_key and by remove_secret_key, also
\* right after the call that returned it.
C3_OneShot ==
    \A public_key \in consumed :
        /\ get_secret_key(Self, public_key) = None
        /\ remove_secret_key(Self, public_key).ret = None

\* C3 witness: a key was consumed, and later the store went through a
\* snapshot round-trip and still resolves some other key.
C3_Witness ==
    /\ consumed # {}
    /\ last.op = "round_trip"
    /\ MapLen(reverse_public_keys) > 0

\* C4: an insertion into a store holding MAX_ONE_TIME_KEYS keys removes the
\* key with the smallest KeyId and no other, every other key keeps its
\* secret, and the smallest KeyId held afterwards is the second-smallest one
\* held before.
C4_EvictionOrder ==
    [][ ( /\ last'.op = "generate"
          /\ last'.arg = 1
          /\ MapLen(private_keys) = MAX_ONE_TIME_KEYS )
        => LET held == DOMAIN private_keys
               oldest == Min(held)
           IN  /\ held \ DOMAIN private_keys' = {oldest}
               /\ DOMAIN private_keys' = (held \ {oldest}) \cup {key_id}
               /\ \A id \in held \ {oldest} : private_keys'[id] = private_keys[id]
               /\ Cardinality(held) >= 2
                     => Min(DOMAIN private_keys') = Min(held \ {oldest})
      ]_vars

\* C4 witness: no key was ever consumed and more than MAX_ONE_TIME_KEYS keys
\* were generated, the last one by a generate(1): that call found the store
\* full.
C4_Witness ==
    /\ last.op = "generate"
    /\ last.arg = 1
    /\ consumed = {}
    /\ key_id > MAX_ONE_TIME_KEYS

\* C5: mark_as_published empties unpublished_public_keys and leaves
\* private_keys, reverse_public_keys and key_id as they were; a second call
\* right after the first changes nothing.
C5_PublishFrame ==
    [][ /\ last'.op = "mark_as_published"
           => /\ unpublished_public_keys' = EmptyMap
              /\ private_keys' = private_keys
              /\ reverse_public_keys' = reverse_public_keys
              /\ key_id' = key_id
        /\ (last.op = "mark_as_published" /\ last'.op = "mark_as_published")
           => Self' = Self
      ]_vars

\* C5 witness: mark_as_published has run on a store that holds keys.
C5_Witness ==
    /\ last.op = "mark_as_published"
    /\ MapLen(private_keys) > 0
    /\ MapLen(reverse_public_keys) > 0
    /\ unpublished_public_keys = EmptyMap

\* The store after it is written to a snapshot and read back.
RoundTripped(s) == from_pickle(to_pickle(s))

\* C6: a snapshot round-trip of any reachable store keeps key_id, and every
\* key that is unpublished when the store is encoded still resolves, through
\* its public key, to the same secret in the decoded store.
C6_RoundTripUnpublished ==
    LET decoded == RoundTripped(Self)
    IN  /\ decoded.key_id = key_id
        /\ \A id \in DOMAIN unpublished_public_keys :
              /\ id \in DOMAIN private_keys
              /\ get_secret_key(decoded, unpublished_public_keys[id])
                    = Some(private_keys[id])

\* C6 witness: a store that came out of a round-trip with unpublished keys,
\* next to a published one, after keys have been generated.
C6_Witness ==
    /\ last.op = "round_trip"
    /\ key_id > 0
    /\ MapLen(unpublished_public_keys) > 0
    /\ MapLen(unpublished_public_keys) < MapLen(private_keys)

\* C7: a key that is held but already published when the store is encoded
\* keeps its secret under its KeyId in the decoded store, but neither
\* get_secret_key nor remove_secret_key resolves its public key there, and the
\* decoded index is smaller than private_keys.
C7_RoundTripPublished ==
    LET decoded == RoundTripped(Self)
    IN  \A id \in DOMAIN private_keys \ DOMAIN unpublished_public_keys :
            LET public_key == PublicKeyFrom(private_keys[id])
            IN  /\ MapGet(decoded.private_keys, id) = Some(private_keys[id])
                /\ get_secret_key(decoded, public_key) = None
                /\ remove_secret_key(decoded, public_key).ret = None
                /\ MapLen(decoded.reverse_public_keys)
                      < MapLen(decoded.private_keys)

\* C7 witness: a store that came out of a round-trip holding a published key.
C7_Witness ==
    /\ last.op = "round_trip"
    /\ DOMAIN private_keys \ DOMAIN unpublished_public_keys # {}
    /\ MapLen(reverse_public_keys) < MapLen(private_keys)

\* C8: on a new store, generate(MAX_ONE_TIME_KEYS) leaves KeyIds
\* 0..MAX_ONE_TIME_KEYS-1, all unpublished and all indexed; mark_as_published
\* then empties the unpublished set and keeps the other two sizes; a further
\* generate(k), 0 < k <= MAX_ONE_TIME_KEYS, keeps both sizes, makes k the
\* smallest KeyId held and leaves exactly the k new KeyIds unpublished.
C8_StoreLimitScenario ==
    /\ scenario = "filled"
          => /\ DOMAIN private_keys = 0..(MAX_ONE_TIME_KEYS - 1)
             /\ DOMAIN unpublished_public_keys = DOMAIN private_keys
             /\ MapLen(reverse_public_keys) = MAX_ONE_TIME_KEYS
    /\ scenario = "published"
          => /\ unpublished_public_keys = EmptyMap
             /\ MapLen(private_keys) = MAX_ONE_TIME_KEYS
             /\ MapLen(reverse_public_keys) = MAX_ONE_TIME_KEYS
    /\ scenario = "refilled"
          => LET k == last.arg
             IN  /\ MapLen(private_keys) = MAX_ONE_TIME_KEYS
                 /\ MapLen(reverse_public_keys) = MAX_ONE_TIME_KEYS
                 /\ Min(DOMAIN private_keys) = k
                 /\ DOMAIN unpublished_public_keys
                       = MAX_ONE_TIME_KEYS..(MAX_ONE_TIME_KEYS + k - 1)

\* C8 witness: the three steps have run, the last with more than one key.
C8_Witness ==
    /\ scenario = "refilled"
    /\ last.arg > 1

\* C9: a remove_secret_key(p) that returns a key returns the secret whose
\* public key is p, removes p from reverse_public_keys and the key's KeyId
\* from unpublished_public_keys and private_keys, and leaves key_id and the
\* entries of all other KeyIds in the three maps as they were.
C9_TakeFrame ==
    [][ (last'.op = "remove_secret_key" /\ last'.ret # None)
        => LET public_key == last'.arg
               id == reverse_public_keys[public_key]
           IN  /\ last'.ret = Some(private_keys[id])
               /\ \A key \in last'.ret : PublicKeyFrom(key) = public_key
               /\ public_key \notin DOMAIN reverse_public_keys'
               /\ id \notin DOMAIN unpublished_public_keys'
               /\ id \notin DOMAIN private_keys'
               /\ key_id' = key_id
               /\ \A other \in KeyIds \ {id} :
                     /\ MapGet(private_keys', other) = MapGet(private_keys, other)
                     /\ MapGet(unpublished_public_keys', other)
                           = MapGet(unpublished_public_keys, other)
               /\ \A other \in PublicKeys \ {public_key} :
                     MapGet(reverse_public_keys', other)
                        = MapGet(reverse_public_keys, other)
      ]_vars

\* C9 witness: remove_secret_key returned a secret and other keys, some of
\* them unpublished, are still held.
C9_Witness ==
    /\ last.op = "remove_secret_key"
    /\ last.ret # None
    /\ MapLen(private_keys) > 0
    /\ MapLen(unpublished_public_keys) > 0

\* C10: get_secret_key changes no field of the store; remove_secret_key(p)
\* for a p that was never issued, was evicted or was already consumed returns
\* nothing and changes no field; and in a store that satisfies I1,
\* get_secret_key(p) returns a key exactly when remove_secret_key(p) would.
C10_NotFound ==
    [][ /\ last'.op = "get_secret_key" => Self' = Self
        /\ ( /\ last'.op = "remove_secret_key"
             /\ \/ last'.arg \notin issued
                \/ last'.arg \in evicted
                \/ last'.arg \in consumed )
           => (last'.ret = None /\ Self' = Self)
        /\ IndexConsistent(Self)
           => \A public_key \in PublicKeys :
                 (get_secret_key(Self, public_key) # None)
                    <=> (remove_secret_key(Self, public_key).ret # None)
      ]_vars

\* C10 witness: remove_secret_key found nothing for an evicted key while the
\* store holds other keys.
C10_Witness ==
    /\ last.op = "remove_secret_key"
    /\ last.arg \in evicted
    /\ last.ret = None
    /\ MapLen(reverse_public_keys) > 0

\* C11: the KeyIds of unpublished_public_keys are KeyIds of private_keys,
\* and they are exactly the held KeyIds assigned since the most recent
\* mark_as_published (since new, if there was none).
C11_UnpublishedExact ==
    /\ DOMAIN unpublished_public_keys \subseteq DOMAIN private_keys
    /\ DOMAIN unpublished_public_keys
          = {id \in DOMAIN private_keys : id >= marked_at}

\* C11 witness: after a mark_as_published, an eviction and a consumption the
\* store holds a published key next to an unpublished one.
C11_Witness ==
    /\ marked_at > 0
    /\ evicted # {}
    /\ consumed # {}
    /\ MapLen(unpublished_public_keys) > 0
    /\ MapLen(unpublished_public_keys) < MapLen(private_keys)

\* C12: key_id never decreases; generate(n) moves it by exactly n and only
\* generate moves it; the KeyIds that enter private_keys are the values
\* key_id had during the call, with freshly generated keys, and no KeyId
\* already held gets another key; every KeyId held is below key_id.  So a
\* KeyId, once assigned, is never assigned again.
C12_KeyIdMonotone ==
    [][ /\ key_id' >= key_id
        /\ last'.op = "generate"
              => /\ key_id' = key_id + last'.arg
                 /\ \A id \in DOMAIN private_keys' \ DOMAIN private_keys :
                       /\ id >= key_id
                       /\ id < key_id'
                       /\ PublicKeyFrom(private_keys'[id]) \in issued' \ issued
                 /\ \A id \in DOMAIN private_keys' \cap DOMAIN private_keys :
                       private_keys'[id] = private_keys[id]
        /\ (last'.op = "generate" /\ last'.arg = 1)
              => DOMAIN private_keys' \ DOMAIN private_keys = {key_id}
        /\ last'.op # "generate"
              => /\ key_id' = key_id
                 /\ DOMAIN private_keys' \subseteq DOMAIN private_keys
        /\ \A id \in DOMAIN private_keys' : id < key_id'
      ]_vars

\* C12 witness: a generate has assigned the last KeyId of the model after
\* keys were consumed and evicted.
C12_Witness ==
    /\ last.op = "generate"
    /\ last.arg > 0
    /\ key_id = MaxKeyId + 1
    /\ consumed # {}
    /\ evicted # {}

\* The smaller of two numbers.
Least(a, b) == IF a <= b THEN a ELSE b

\* C13: generate(0) changes no field; generate(n) moves key_id by exactly n
\* and leaves the min(n, MAX_ONE_TIME_KEYS) KeyIds assigned last in
\* private_keys, in unpublished_public_keys and in reverse_public_keys.
C13_GenerateTotal ==
    [][ last'.op = "generate"
        => LET n == last'.arg
               recent == (key_id' - Least(n, MAX_ONE_TIME_KEYS))..(key_id' - 1)
           IN  /\ n = 0 => Self' = Self
               /\ key_id' = key_id + n
               /\ \A id \in recent :
                     /\ id \in DOMAIN private_keys'
                     /\ MapGet(unpublished_public_keys', id)
                           = Some(PublicKeyFrom(private_keys'[id]))
                     /\ MapGet(reverse_public_keys',
                               PublicKeyFrom(private_keys'[id])) = Some(id)
      ]_vars

\* C13 witness: a generate of more keys than the store can hold, on a store
\* that already held keys.
C13_Witness ==
    /\ last.op = "generate"
    /\ last.arg > MAX_ONE_TIME_KEYS
    /\ key_id > last.arg
    /\ MapLen(unpublished_public_keys) = MAX_ONE_TIME_KEYS

\* C14: when reverse_public_keys maps a public key to a KeyId that
\* private_keys does not hold, get_secret_key and remove_secret_key of that
\* public key end in a fatal assertion.
C14_FatalOnMismatch ==
    [][ ( /\ last'.op \in {"get_secret_key", "remove_secret_key"}
          /\ last'.arg \in DOMAIN reverse_public_keys
          /\ reverse_public_keys[last'.arg] \notin DOMAIN private_keys )
        => last'.fatal
      ]_vars

\* C17: insert_secret_key on a store that satisfies I1 leaves a store that
\* satisfies I1, whatever KeyId and key it is given.
C17_InsertKeepsIndex ==
    [][ (last'.op = "insert_secret_key" /\ IndexConsistent(Self))
        => IndexConsistent(Self')
      ]_vars

\* C16: one insertion (a generate(1)) removes exactly one held key when
\* private_keys holds MAX_ONE_TIME_KEYS keys or more and none otherwise; the
\* removed key's KeyId is then in none of the three maps, its public key is
\* no key of reverse_public_keys and get_secret_key finds nothing for it; the
\* keys that stay keep their secrets.
C16_EvictionCompleteSingle ==
    [][ (last'.op = "generate" /\ last'.arg = 1)
        => LET removed == DOMAIN private_keys \ DOMAIN private_keys'
           IN  /\ Cardinality(removed) =
                     IF MapLen(private_keys) >= MAX_ONE_TIME_KEYS THEN 1 ELSE 0
               /\ \A id \in DOMAIN private_keys \ removed :
                     private_keys'[id] = private_keys[id]
               /\ \A id \in removed :
                     LET public_key == PublicKeyFrom(private_keys[id])
                     IN  /\ id \notin DOMAIN private_keys'
                         /\ id \notin DOMAIN unpublished_public_keys'
                         /\ id \notin MapValues(reverse_public_keys')
                         /\ public_key \notin DOMAIN reverse_public_keys'
                         /\ get_secret_key(Self', public_key) = None
      ]_vars

\* C16 witness: a generate(1) has evicted a key that was still unpublished and
\* indexed: nothing was ever consumed or published, and more keys were
\* generated than the store holds.
C16_Witness ==
    /\ last.op = "generate"
    /\ last.arg = 1
    /\ consumed = {}
    /\ marked_at = 0
    /\ key_id > MAX_ONE_TIME_KEYS
    /\ MapLen(reverse_public_keys) = MAX_ONE_TIME_KEYS

\* C18: every key that the publisher's mark_as_published removes from
\* unpublished_public_keys was in the batch it enumerated last, and a key
\* generated between the enumeration and mark_as_published is still
\* unpublished afterwards.
C18_PublishNeverSkips ==
    [][ (last'.op = "mark_as_published" /\ batch.state = "uploading")
        => /\ \A id \in DOMAIN unpublished_public_keys
                          \ DOMAIN unpublished_public_keys' :
                 id \in DOMAIN batch.public_keys
           /\ \A id \in DOMAIN private_keys :
                 id >= batch.at => id \in DOMAIN unpublished_public_keys'
      ]_vars

\* C18, amended: the publisher's mark_as_published removes every key from
\* unpublished_public_keys; each key it removes was in the batch enumerated
\* last or was generated after that enumeration, so a key generated between
\* the enumeration and mark_as_published is not unpublished afterwards; when
\* no generate fell between the two, every removed key was in the batch.
C18_PublishClearsAll ==
    [][ (last'.op = "mark_as_published" /\ batch.state = "uploading")
        => /\ unpublished_public_keys' = EmptyMap
           /\ \A id \in DOMAIN unpublished_public_keys :
                 \/ /\ id \in DOMAIN batch.public_keys
                    /\ batch.public_keys[id] = unpublished_public_keys[id]
                 \/ id >= batch.at
           /\ key_id = batch.at
                 => DOMAIN unpublished_public_keys
                       \subseteq DOMAIN batch.public_keys
      ]_vars

\* C18 witness: the publisher has called mark_as_published and the store
\* holds a key generated after the enumeration that was never in the batch
\* and is no longer unpublished.
C18_Witness ==
    /\ batch.state = "published"
    /\ last.op = "mark_as_published"
    /\ \E id \in DOMAIN private_keys :
          /\ id >= batch.at
          /\ id \notin DOMAIN batch.public_keys
          /\ id \notin DOMAIN unpublished_public_keys
    /\ MapLen(batch.public_keys) > 0

\* C19: every entry (id, pk) of unpublished_public_keys names a held key:
\* pk is the public key of private_keys[id], and reverse_public_keys maps pk
\* back to id.
C19_UnpublishedAgrees ==
    \A id \in DOMAIN unpublished_public_keys :
        LET public_key == unpublished_public_keys[id]
        IN  /\ MapGet(private_keys, id) # None
            /\ \A key \in MapGet(private_keys, id) :
                  PublicKeyFrom(key) = public_key
            /\ MapGet(reverse_public_keys, public_key) = Some(id)

\* C19 witness: after an eviction, a consumption and a round-trip that lost
\* a published key's index entry, the store holds an unpublished key.
C19_Witness ==
    /\ evicted # {}
    /\ consumed # {}
    /\ MapLen(unpublished_public_keys) > 0
    /\ MapLen(reverse_public_keys) < MapLen(private_keys)

\* C20: a store whose held keys are all unpublished comes out of a snapshot
\* round-trip equal in all four fields, and a second round-trip of any store
\* gives what the first gave.
C20_RoundTripIdentity ==
    /\ DOMAIN unpublished_public_keys = DOMAIN private_keys
          => RoundTripped(Self) = Self
    /\ RoundTripped(RoundTripped(Self)) = RoundTripped(Self)

\* C20 witness: a full store of unpublished keys has come out of a
\* round-trip, after an eviction.
C20_Witness ==
    /\ last.op = "round_trip"
    /\ evicted # {}
    /\ MapLen(private_keys) = MAX_ONE_TIME_KEYS
    /\ DOMAIN unpublished_public_keys = DOMAIN private_keys

====
